---- MODULE Spec2Model ----
(***************************************************************************)
(* Incremental export engine of aurora-snowflake-sync (lambda/src):        *)
(* handler.py drives one export run per invocation against                 *)
(*   - the watermark store (watermark.py, a DynamoDB item per table),      *)
(*   - the batch extractor (extractor.py, a server-side cursor),           *)
(*   - the batch writer (writer.py, one Parquet object per batch).         *)
(* Several invocations for the same table may overlap; they share only     *)
(* the watermark item, the object store and the (read-only) source table.  *)
(*                                                                         *)
(* Timestamps are abstracted to the integers 1..MaxWm; Python's None is    *)
(* NoWm.  The watermark column of the source is taken to be NOT NULL (the  *)
(* table invariant "watermark column must be comparable").                 *)
(***************************************************************************)
EXTENDS Integers, Sequences, FiniteSets, TLC

\* ---------------------------------------------------------------- bounds
NumRuns == 2          \* overlapping invocations of handler()
MaxRows == 3          \* rows in the source table
MaxWm == 2            \* distinct watermark-column values
MaxBatchSize == 2     \* event["batch_size"] ranges over 1..MaxBatchSize
MaxMockBatches == 2   \* batches a stubbed extractor yields
MaxConcRows == 1      \* rows in the source table while invocations overlap
MaxWrites == 3        \* write_batch calls on a writer instance used on its own
MaxCalls == 2         \* update_watermark calls on a manager used on its own

\* ------------------------------------------------------ program constants
NoWm == 0                       \* None (no watermark)
TimeoutBufferSeconds == 60      \* LambdaConfig.timeout_buffer_seconds
TableName == "ORDERS_CDC"       \* event["table_name"]
OtherTableName == "CUSTOMERS_CDC"   \* event["table_name"] of invocations for another table
Tables == {TableName, OtherTableName}

Runs == 1..NumRuns
WmValues == 1..MaxWm
RemainingMsValues == {30000, 60000, 300000}

VARIABLES
    source,   \* the source table: source[i] is the watermark-column value of row i
    store,    \* DynamoDB: table_name -> set holding the item, if any
    files,    \* S3: set of objects [key, rows]
    run       \* per invocation: the handler's locals and position

vars == <<source, store, files, run>>

\* ------------------------------------------------------------- helpers
Min(a, b) == IF a <= b THEN a ELSE b

RECURSIVE SeqMax(_)
SeqMax(s) == IF s = <<>> THEN NoWm
             ELSE LET m == SeqMax(Tail(s)) IN IF Head(s) > m THEN Head(s) ELSE m

\* datetime.isoformat(): the stored string form of a timestamp
Isoformat(w) == <<w, "+00:00">>

\* datetime.fromisoformat(s.replace("Z", "+00:00"))
FromIsoformat(s) == LET t == IF s[2] = "Z" THEN <<s[1], "+00:00">> ELSE s IN t[1]

\* ------------------------------------------------------ watermark.py
\* the primary key under which the item of a table is read and put:
\* Key={"table_name": {"S": table_name}}
ItemKeyShared(table_name) == TableName

ItemKey(table_name) == table_name

\* WatermarkManager.get_watermark: None when there is no item
GetWatermark(table_name) ==
    IF store[ItemKey(table_name)] = {} THEN NoWm
    ELSE LET item == CHOOSE it \in store[ItemKey(table_name)] : TRUE
         IN FromIsoformat(item.watermark)

\* the ConditionExpression of put_item
ConditionHoldsUnconditional(table_name, previous_watermark) == TRUE

ConditionHoldsIfPresent(table_name, previous_watermark) ==
    \/ previous_watermark = NoWm
    \/ \E it \in store[ItemKey(table_name)] :
          it.watermark = Isoformat(previous_watermark)

ConditionHoldsIfExists(table_name, previous_watermark) ==
    IF previous_watermark = NoWm
    THEN store[ItemKey(table_name)] = {}
    ELSE store[ItemKey(table_name)] # {}

ConditionHolds(table_name, previous_watermark) ==
    IF previous_watermark = NoWm
    THEN store[ItemKey(table_name)] = {}              \* attribute_not_exists(table_name)
    ELSE \E it \in store[ItemKey(table_name)] :       \* watermark = :prev
            it.watermark = Isoformat(previous_watermark)

\* WatermarkManager.get_state: <<>> (None) when there is no item
GetState(table_name) ==
    IF store[ItemKey(table_name)] = {} THEN <<>>
    ELSE LET item == CHOOSE it \in store[ItemKey(table_name)] : TRUE
         IN <<[table_name |-> item.table_name,
               watermark |-> FromIsoformat(item.watermark),
               rows_exported |-> item.rows_exported,
               execution_id |-> item.execution_id]>>

\* what a call of the DynamoDB client raises when it fails for another reason
\* than the condition: a ClientError (an error response of the service), or
\* an exception of another class (no response: the endpoint is unreachable)
ClientFailures == {"ClientError", "EndpointConnectionError"}

\* the except clauses of get_watermark, update_watermark and get_state
\* (lines 55-56, 114-120, 153-154): what leaves the method when the client
\* raises exc
ExceptClientError(exc) == IF exc = "ClientError" THEN "WatermarkError" ELSE exc

\* the item update_watermark puts
ItemWithoutOffset(table_name, new_watermark, rows_exported, execution_id) ==
    [table_name |-> table_name,
     watermark |-> <<new_watermark, "">>,
     rows_exported |-> rows_exported,
     execution_id |-> execution_id]

Item(table_name, new_watermark, rows_exported, execution_id) ==
    [table_name |-> table_name,
     watermark |-> Isoformat(new_watermark),
     rows_exported |-> rows_exported,
     execution_id |-> execution_id]

\* the exception update_watermark raises when put_item fails, lines 114-120:
\* for a failed condition (conflict) and for any other ClientError
UpdateWatermarkError(conflict) == "WatermarkError"

\* WatermarkManager.update_watermark: the outcome of one call and the table it
\* leaves (fails: put_item raises a ClientError other than the failed condition)
UpdateWatermarkCall(table_name, new_watermark, rows_exported, execution_id, previous_watermark, fails) ==
    LET holds == ConditionHolds(table_name, previous_watermark)
        ok == ~fails /\ holds
        conflict == ~fails /\ ~holds
    IN [ok |-> ok,
        conflict |-> conflict,
        error |-> IF ok THEN "" ELSE UpdateWatermarkError(conflict),
        store |-> IF ok
                  THEN [store EXCEPT ![ItemKey(table_name)] =
                           {Item(table_name, new_watermark, rows_exported, execution_id)}]
                  ELSE store]

\* ------------------------------------------------------ extractor.py
\* rows in ascending order of the watermark column (ORDER BY wm_col);
\* ties are returned in storage order
RECURSIVE InsertSorted(_, _)
InsertSorted(i, s) ==
    IF s = <<>> THEN <<i>>
    ELSE IF source[i] < source[Head(s)] THEN <<i>> \o s
    ELSE <<Head(s)>> \o InsertSorted(i, Tail(s))

OrderByStorage(s) == s

RECURSIVE OrderBy(_)
OrderBy(s) == IF s = <<>> THEN <<>>
              ELSE InsertSorted(s[Len(s)], OrderBy(SubSeq(s, 1, Len(s) - 1)))

\* the WHERE clause of build_query / get_row_count
WhereAtLeast(w, i) == w = NoWm \/ source[i] >= w

Where(w, i) == w = NoWm \/ source[i] > w

AllRows == [i \in 1..Len(source) |-> i]

\* DataExtractor.build_query: the row ids the query returns, in order
BuildQuery(watermark) == OrderBy(SelectSeq(AllRows, LAMBDA i : Where(watermark, i)))

\* build_query, lines 133-136: the CASE expression; a NULL created_col
\* (NoWm) equals nothing
CaseWhen(created_at, commit_ts) ==
    IF created_at # NoWm /\ created_at = commit_ts THEN "I" ELSE "U"

\* build_query, lines 130-139: op_expr; created_col tells whether
\* created_at_column is configured
OpExpr(created_col, created_at, commit_ts) ==
    IF created_col THEN CaseWhen(created_at, commit_ts) ELSE "U"

\* build_query, lines 141-157: the op column of a selected row
OpOfRowAlwaysExpr(watermark, created_col, created_at, commit_ts) ==
    OpExpr(created_col, created_at, commit_ts)

OpOfRow(watermark, created_col, created_at, commit_ts) ==
    IF watermark = NoWm THEN "I" ELSE OpExpr(created_col, created_at, commit_ts)

\* DataExtractor.get_row_count
GetRowCount(watermark) == Len(SelectSeq(AllRows, LAMBDA i : Where(watermark, i)))

\* extract_batches, lines 190-192: the generator's running maximum
RowTrackMin(max_watermark, row_wm) ==
    IF row_wm # NoWm /\ (max_watermark = NoWm \/ row_wm < max_watermark)
    THEN row_wm ELSE max_watermark

RowTrackMax(max_watermark, row_wm) ==
    IF row_wm # NoWm /\ (max_watermark = NoWm \/ row_wm > max_watermark)
    THEN row_wm ELSE max_watermark

FoldRowsKeepsStart(max_watermark, rows) == max_watermark

RECURSIVE FoldRows(_, _)
FoldRows(max_watermark, rows) ==
    IF rows = <<>> THEN max_watermark
    ELSE FoldRows(RowTrackMax(max_watermark, source[Head(rows)]), Tail(rows))

\* extract_batches, line 194: the batch in hand is yielded
BatchFullOver(len, batch_size) == len > batch_size

BatchFull(len, batch_size) == len >= batch_size

\* extract_batches, lines 186-200: the loop over the cursor, as the sequence
\* of the batches it yields; batch is the list in hand
RECURSIVE ExtractLoop(_, _, _)
ExtractLoop(cursor, batch, batch_size) ==
    IF cursor = <<>>
    THEN IF batch # <<>> THEN <<batch>> ELSE <<>>
    ELSE LET appended == Append(batch, Head(cursor))
         IN IF BatchFull(Len(appended), batch_size)
            THEN <<appended>> \o ExtractLoop(Tail(cursor), <<>>, batch_size)
            ELSE ExtractLoop(Tail(cursor), appended, batch_size)

ExtractBatches(cursor, batch_size) == ExtractLoop(cursor, <<>>, batch_size)

\* ------------------------------------------------------ handler.py
\* check_timeout
CheckTimeoutFnAtMost(context, remaining_ms, buffer_seconds) ==
    IF ~context THEN FALSE ELSE remaining_ms <= buffer_seconds * 1000

CheckTimeoutFn(context, remaining_ms, buffer_seconds) ==
    IF ~context THEN FALSE ELSE remaining_ms < buffer_seconds * 1000

\* handler 119-122 and build_config 59-74: the checks made before the first
\* call to a collaborator, in the order of the code, and whether the secret
\* was fetched
ConfigStepsSecretFirst(has_table_name, has_env, has_secret_arn) ==
    IF ~has_table_name
    THEN [error |-> "ConfigurationError", raised_by |-> "handler", secret_fetches |-> 0]
    ELSE IF ~has_secret_arn
    THEN [error |-> "ConfigurationError", raised_by |-> "build_config",
          secret_fetches |-> 0]
    ELSE IF ~has_env
    THEN [error |-> "ConfigurationError", raised_by |-> "from_env", secret_fetches |-> 1]
    ELSE [error |-> "", raised_by |-> "", secret_fetches |-> 1]

ConfigSteps(has_table_name, has_env, has_secret_arn) ==
    IF ~has_table_name
    THEN [error |-> "ConfigurationError", raised_by |-> "handler", secret_fetches |-> 0]
    ELSE IF ~has_env
    THEN [error |-> "ConfigurationError", raised_by |-> "from_env", secret_fetches |-> 0]
    ELSE IF ~has_secret_arn
    THEN [error |-> "ConfigurationError", raised_by |-> "build_config",
          secret_fetches |-> 0]
    ELSE [error |-> "", raised_by |-> "", secret_fetches |-> 1]

\* handler, lines 167-175: where the loop goes after the check
AfterCheckFinishBatch(expired) == "write"

AfterCheck(expired) == IF expired THEN "commit" ELSE "write"

\* handler, line 165: whether the for loop asks the stream for another batch
\* after a processed one
LoopContinuesUpToCount(total_rows, row_count) == total_rows < row_count

LoopContinues(total_rows, row_count) == TRUE

\* handler, lines 136-142: the starting watermark
StartingWatermarkStored(force_full_load, stored) == stored

StartingWatermark(force_full_load, stored) ==
    IF force_full_load THEN NoWm ELSE stored

\* handler, lines 184-185
TrackOverwrite(max_watermark, batch_max_wm) == batch_max_wm

TrackLast(max_watermark, batch_max_wm) ==
    IF batch_max_wm # NoWm THEN batch_max_wm ELSE max_watermark

TrackMin(max_watermark, batch_max_wm) ==
    IF batch_max_wm # NoWm /\ (max_watermark = NoWm \/ batch_max_wm < max_watermark)
    THEN batch_max_wm ELSE max_watermark

TrackMax(max_watermark, batch_max_wm) ==
    IF batch_max_wm # NoWm /\ (max_watermark = NoWm \/ batch_max_wm > max_watermark)
    THEN batch_max_wm ELSE max_watermark

\* handler, line 192
ShouldCommitNoRowsTest(total_rows, max_watermark, dry_run, timeout_reached) ==
    max_watermark # NoWm /\ ~dry_run

ShouldCommitIgnoreDryRun(total_rows, max_watermark, dry_run, timeout_reached) ==
    total_rows > 0 /\ max_watermark # NoWm

ShouldCommitUnlessTimeout(total_rows, max_watermark, dry_run, timeout_reached) ==
    total_rows > 0 /\ max_watermark # NoWm /\ ~dry_run /\ ~timeout_reached

ShouldCommit(total_rows, max_watermark, dry_run, timeout_reached) ==
    total_rows > 0 /\ max_watermark # NoWm /\ ~dry_run

\* handler, lines 222-228: where an exception raised inside the try block leads
OnErrorCommit(kind) == "commit"

OnErrorSwallowed(kind) == "done"

OnError(kind) == "error"

\* ------------------------------------------------------ writer.py
\* S3ParquetWriter._generate_key (the run-specific part of the key), with the
\* counter already incremented
GenerateKeyNoRunId(execution_id, batch_counter) == <<0, batch_counter>>

GenerateKey(execution_id, batch_counter) == <<execution_id, batch_counter>>

\* _batch_counter after a write_batch call that generated a key (line 49 runs
\* before the conversion and the upload), whether or not the call then raised
CounterAfterUpload(batch_counter, raised) ==
    IF raised THEN batch_counter ELSE batch_counter + 1

CounterAfterWrite(batch_counter, raised) == batch_counter + 1

\* write_batch, lines 96-98: empty input is skipped
SkipsNothing(rows) == FALSE

SkipsEmpty(rows) == rows = <<>>

\* _convert_to_arrow, lines 68-69: what converting rows leads to
ConvertToArrow(rows) == IF rows = <<>> THEN "WriterError" ELSE "table"

\* get_written_files
GetWrittenFilesNext(rec) == rec.batch_counter + 1

GetWrittenFiles(rec) == rec.batch_counter

InitRun ==
    [pc |-> "start",
     table_name |-> TableName,
     force_full_load |-> FALSE, dry_run |-> FALSE, batch_size |-> 1, context |-> FALSE,
     watermark |-> NoWm, previous_watermark |-> NoWm,
     row_count |-> 0,
     opened |-> FALSE, fetched |-> 0, gen_max |-> NoWm,
     batch |-> <<>>, batch_max_wm |-> NoWm,
     total_rows |-> 0, max_watermark |-> NoWm, timeout_reached |-> FALSE,
     batch_counter |-> 0,
     error |-> "", raised_by |-> "",
     result |-> <<>>,
     \* history of the invocation
     checks |-> 0, processed |-> <<>>, write_calls |-> 0, wm_calls |-> <<>>,
     got |-> <<>>, counted_from |-> <<>>, streamed_from |-> <<>>,
     maxima |-> <<>>, writes |-> <<>>, keys |-> <<>>, uploads |-> 0,
     identifiers |-> <<>>, secret_fetches |-> 0,
     batches |-> <<>>, exhausted |-> FALSE,
     queries |-> <<>>, yielded_max |-> <<>>,
     store_call |-> <<>>, last_commit |-> <<>>, last_read |-> <<>>,
     conn |-> [pc |-> "idle", connection |-> "none", extractor_conn |-> FALSE,
               row_count |-> 0, probes |-> 0, connects |-> 0,
               raised |-> "", opened_on |-> <<>>],
     exporter |-> [pc |-> "idle", i |-> 0, watermark |-> <<>>,
                   secret_calls |-> 0, watermark_calls |-> <<>>,
                   export_calls |-> <<>>, raised |-> <<>>,
                   uncaught |-> "", response |-> <<>>]]

\* a source table in storage order.  Row ids are labels the program never
\* sees, so one storage order per multiset of values is enough; newest first
\* is taken, so that ORDER BY has to reorder it
Sources(max_rows) == {s \in UNION {[1..n -> WmValues] : n \in 0..max_rows} :
                         \A i \in 1..Len(s) - 1 : s[i] >= s[i + 1]}

\* the item left by an earlier invocation (execution_id 0), if any
InitialItemsFor(table_name) ==
    {{}} \cup {{Item(table_name, w, 1, 0)} : w \in WmValues}

InitialItems == InitialItemsFor(TableName)

InitWith(sources) ==
    /\ source \in sources
    /\ store \in {[t \in Tables |-> IF t = TableName THEN it ELSE {}] :
                      it \in InitialItems}
    /\ files = {}
    /\ run = [r \in Runs |-> InitRun]

Init == InitWith(Sources(MaxRows))

InitConc == InitWith(Sources(MaxConcRows))

\* a stubbed extractor never reads the source
InitMock == InitWith({<<>>})

\* ------------------------------------------------------------- actions
Set(r, upd) == run' = [run EXCEPT ![r] = upd]

\* handler returns or raises: its frame is gone; the event, the outcome and
\* the history of its calls stay
Leave(rec) ==
    IF rec.pc \in {"done", "error"}
    THEN [rec EXCEPT !.opened = FALSE, !.fetched = 0, !.gen_max = NoWm,
                     !.batch = <<>>, !.batch_max_wm = NoWm,
                     !.total_rows = 0, !.max_watermark = NoWm,
                     !.batch_counter = 0]
    ELSE rec

Raise(r, kind, by) ==
    Set(r, Leave([run[r] EXCEPT !.pc = OnError(kind), !.error = kind, !.raised_by = by]))

\* handler, lines 114-133: validate the event, build config and components
InvokeFor(r, table_name, force_full_load, dry_run, batch_size, context) ==
    /\ run[r].pc = "start"
    /\ Set(r, [run[r] EXCEPT !.pc = "resolve",
                             !.identifiers = <<TRUE, TRUE, TRUE>>,
                             !.secret_fetches = ConfigSteps(TRUE, TRUE, TRUE).secret_fetches,
                             !.table_name = table_name,
                             !.force_full_load = force_full_load,
                             !.dry_run = dry_run,
                             !.batch_size = batch_size,
                             !.context = context])
    /\ UNCHANGED <<source, store, files>>

\* handler, lines 119-128, when the event has no table_name, a required
\* environment variable is unset or AURORA_SECRET_ARN is unset
InvokeMisconfigured(r, has_table_name, has_env, has_secret_arn) ==
    /\ run[r].pc = "start"
    /\ ~(has_table_name /\ has_env /\ has_secret_arn)
    /\ LET out == ConfigSteps(has_table_name, has_env, has_secret_arn)
       IN Set(r, Leave([run[r] EXCEPT
                 !.pc = IF out.error = "" THEN "resolve" ELSE "error",
                 !.identifiers = <<has_table_name, has_env, has_secret_arn>>,
                 !.secret_fetches = out.secret_fetches,
                 !.error = out.error,
                 !.raised_by = out.raised_by]))
    /\ UNCHANGED <<source, store, files>>

\* an invocation for the table the other invocations work on
Invoke(r, force_full_load, dry_run, batch_size, context) ==
    InvokeFor(r, TableName, force_full_load, dry_run, batch_size, context)

\* handler, lines 136-142
ResolveWatermark(r) ==
    /\ run[r].pc = "resolve"
    /\ LET w == StartingWatermark(run[r].force_full_load,
                                  GetWatermark(run[r].table_name))
       IN Set(r, [run[r] EXCEPT !.pc = "count", !.watermark = w, !.previous_watermark = w,
                                !.got = IF run[r].force_full_load
                                        THEN <<>>
                                        ELSE <<GetWatermark(run[r].table_name)>>])
    /\ UNCHANGED <<source, store, files>>

\* get_watermark raises WatermarkError (ClientError from get_item)
GetWatermarkFails(r) ==
    /\ run[r].pc = "resolve"
    /\ ~run[r].force_full_load
    /\ Raise(r, "WatermarkError", "get_watermark")
    /\ UNCHANGED <<source, store, files>>

\* handler, lines 146-163: what the handler does with the count
Counted(r, row_count) ==
          IF row_count = 0
          THEN Set(r, Leave([run[r] EXCEPT !.pc = "done", !.row_count = 0,
                          !.counted_from = <<run[r].watermark>>,
                          !.result = <<[table_name |-> run[r].table_name,
                                        rows_exported |-> 0,
                                        files_written |-> 0,
                                        execution_id |-> r,
                                        message |-> "No new rows to export"]>>]))
          ELSE Set(r, [run[r] EXCEPT !.pc = "next", !.row_count = row_count,
                          !.counted_from = <<run[r].watermark>>,
                          !.total_rows = 0,
                          !.max_watermark = run[r].watermark,
                          !.timeout_reached = FALSE])

\* handler, line 145, with get_row_count (extractor.py 205-230)
CountRows(r) ==
    /\ run[r].pc = "count"
    /\ Counted(r, GetRowCount(run[r].watermark))
    /\ UNCHANGED <<source, store, files>>

\* get_row_count raises ExtractionError
GetRowCountFails(r) ==
    /\ run[r].pc = "count"
    /\ Raise(r, "ExtractionError", "get_row_count")
    /\ UNCHANGED <<source, store, files>>

\* extract_batches, lines 173-200: the generator runs to its next yield
NextBatch(r) ==
    /\ run[r].pc = "next"
    /\ LET yields == ExtractBatches(BuildQuery(run[r].watermark), run[r].batch_size)
           k == Len(run[r].batches) + 1
           gen_max == IF run[r].opened THEN run[r].gen_max ELSE run[r].watermark
       IN IF k > Len(yields)
          THEN Set(r, [run[r] EXCEPT !.pc = "commit", !.opened = TRUE,
                                     !.streamed_from = <<run[r].watermark>>,
                                     !.exhausted = TRUE,
                                     !.batch = <<>>, !.batch_max_wm = NoWm])
          ELSE LET batch == yields[k]
                   max_watermark == FoldRows(gen_max, batch)
               IN Set(r, [run[r] EXCEPT !.pc = "check", !.opened = TRUE,
                                     !.streamed_from = <<run[r].watermark>>,
                                     !.fetched = @ + Len(batch),
                                     !.gen_max = max_watermark,
                                     !.batches = Append(@, batch),
                                     !.yielded_max = Append(@, max_watermark),
                                     !.batch = batch, !.batch_max_wm = max_watermark])
    /\ UNCHANGED <<source, store, files>>

\* the cursor raises psycopg2.Error: ExtractionError
NextBatchFails(r) ==
    /\ run[r].pc = "next"
    /\ Raise(r, "ExtractionError", "extract_batches")
    /\ UNCHANGED <<source, store, files>>

\* handler, lines 167-173
CheckTimeout(r, remaining_ms) ==
    /\ run[r].pc = "check"
    /\ LET expired == CheckTimeoutFn(run[r].context, remaining_ms, TimeoutBufferSeconds)
       IN Set(r, [run[r] EXCEPT !.pc = AfterCheck(expired),
                                !.timeout_reached = IF expired THEN TRUE ELSE @,
                                !.checks = @ + 1])
    /\ UNCHANGED <<source, store, files>>

\* S3ParquetWriter.write_batch on the writer held in rec: what the call leaves
\* in the writer and in the bucket, and whether it raised WriterError (fails:
\* the conversion or put_object raises)
WriteBatchCall(rec, execution_id, rows, fails) ==
    LET skip == SkipsEmpty(rows)
        key == GenerateKey(execution_id, rec.batch_counter + 1)
        raised == ~skip /\ (fails \/ ConvertToArrow(rows) = "WriterError")
    IN [raised |-> raised,
        files |-> IF skip \/ raised THEN files
                  ELSE {f \in files : f.key # key} \cup {[key |-> key, rows |-> rows]},
        rec |-> IF skip
                THEN [rec EXCEPT !.write_calls = @ + 1,
                                 !.writes = Append(@, [len |-> 0, returned |-> <<>>,
                                                       raised |-> FALSE])]
                ELSE [rec EXCEPT !.batch_counter = CounterAfterWrite(@, raised),
                                 !.keys = Append(@, key),
                                 !.uploads = IF raised THEN @ ELSE @ + 1,
                                 !.write_calls = @ + 1,
                                 !.writes = Append(@, [len |-> Len(rows),
                                                       returned |-> IF raised THEN <<>>
                                                                    ELSE key,
                                                       raised |-> raised])]]

\* handler, lines 176-187: write the batch unless dry_run, then count its rows
\* and track the maximum; a WriterError leaves through the except clauses
HandleBatch(r, fails) ==
    LET out == IF run[r].dry_run
               THEN [raised |-> FALSE, files |-> files, rec |-> run[r]]
               ELSE WriteBatchCall(run[r], r, run[r].batch, fails)
    IN /\ files' = out.files
       /\ IF out.raised
          THEN Set(r, Leave([out.rec EXCEPT !.pc = OnError("WriterError"),
                                            !.error = "WriterError",
                                            !.raised_by = "write_batch"]))
          ELSE Set(r, [out.rec EXCEPT
                 !.pc = IF LoopContinues(run[r].total_rows + Len(run[r].batch),
                                         run[r].row_count)
                        THEN "next" ELSE "commit",
                 !.total_rows = @ + Len(run[r].batch),
                 !.max_watermark = TrackMax(@, run[r].batch_max_wm),
                 !.processed = Append(@, run[r].batch_max_wm),
                 !.maxima = Append(@, TrackMax(run[r].max_watermark,
                                               run[r].batch_max_wm))])

ProcessBatch(r) ==
    /\ run[r].pc = "write"
    /\ HandleBatch(r, FALSE)
    /\ UNCHANGED <<source, store>>

\* write_batch raises WriterError after the key was generated (writer.py 101-142)
WriteBatchFails(r) ==
    /\ run[r].pc = "write"
    /\ ~run[r].dry_run
    /\ ~SkipsEmpty(run[r].batch)
    /\ HandleBatch(r, TRUE)
    /\ UNCHANGED <<source, store>>

\* the success result, handler lines 202-217
Result(r) ==
    [table_name |-> run[r].table_name,
     rows_exported |-> run[r].total_rows,
     files_written |-> GetWrittenFiles(run[r]),
     execution_id |-> r,
     duration_seconds |-> "seconds",
     new_watermark |-> IF run[r].max_watermark # NoWm
                       THEN Isoformat(run[r].max_watermark) ELSE <<>>,
     timeout_reached |-> run[r].timeout_reached,
     dry_run |-> run[r].dry_run,
     message |-> IF run[r].timeout_reached THEN "Partial export due to timeout" ELSE ""]

\* an update_watermark call as its caller saw it: arguments and outcome
CallRecord(out, new_watermark, previous_watermark, rows_exported, writes_before) ==
    [ok |-> out.ok, conflict |-> out.conflict, error |-> out.error,
     new_watermark |-> new_watermark,
     previous_watermark |-> previous_watermark,
     rows_exported |-> rows_exported,
     writes_before |-> writes_before]

\* handler, lines 192-200: the update_watermark call, and how the handler
\* leaves when it raises
CallUpdateWatermark(r, fails) ==
    LET out == UpdateWatermarkCall(run[r].table_name, run[r].max_watermark,
                                   run[r].total_rows,
                                   r, run[r].previous_watermark, fails)
        call == CallRecord(out, run[r].max_watermark, run[r].previous_watermark,
                           run[r].total_rows, run[r].write_calls)
    IN /\ store' = out.store
       /\ IF out.ok
          THEN Set(r, Leave([run[r] EXCEPT !.pc = "done",
                                           !.result = <<Result(r)>>,
                                           !.wm_calls = Append(@, call)]))
          ELSE Set(r, Leave([run[r] EXCEPT !.pc = OnError(out.error),
                                           !.error = out.error,
                                           !.raised_by = "update_watermark",
                                           !.wm_calls = Append(@, call)]))

\* handler, lines 190-220, with update_watermark (watermark.py 77-120)
Commit(r) ==
    /\ run[r].pc = "commit"
    /\ IF ShouldCommit(run[r].total_rows, run[r].max_watermark, run[r].dry_run,
                       run[r].timeout_reached)
       THEN CallUpdateWatermark(r, FALSE)
       ELSE /\ store' = store
            /\ Set(r, Leave([run[r] EXCEPT !.pc = "done", !.result = <<Result(r)>>]))
    /\ UNCHANGED <<source, files>>

\* put_item fails for another reason than the condition (watermark.py 120)
UpdateWatermarkFails(r) ==
    /\ run[r].pc = "commit"
    /\ ShouldCommit(run[r].total_rows, run[r].max_watermark, run[r].dry_run,
                    run[r].timeout_reached)
    /\ CallUpdateWatermark(r, TRUE)
    /\ UNCHANGED <<source, files>>

\* invocations are numbered in the order in which they start
Startable(r) == \A q \in Runs : q < r => run[q].pc # "start"

\* handler, lines 144-220: from the count to the result
Export(r) ==
    \/ CountRows(r)
    \/ GetRowCountFails(r)
    \/ NextBatch(r)
    \/ NextBatchFails(r)
    \/ \E ms \in RemainingMsValues : CheckTimeout(r, ms)
    \/ ProcessBatch(r)
    \/ WriteBatchFails(r)
    \/ Commit(r)
    \/ UpdateWatermarkFails(r)

Steps(r) ==
    \/ ResolveWatermark(r)
    \/ GetWatermarkFails(r)
    \/ Export(r)

\* One invocation that no other invocation overlaps, for every event, with or
\* without a Lambda context, from every state of the store and of the source.
Next ==
    \E r \in Runs :
        /\ \A q \in Runs : r <= q
        /\ \/ \E f \in BOOLEAN, d \in BOOLEAN, b \in 1..MaxBatchSize, c \in BOOLEAN :
                 Invoke(r, f, d, b, c)
           \/ \E t \in BOOLEAN, e \in BOOLEAN, s \in BOOLEAN :
                 InvokeMisconfigured(r, t, e, s)
           \/ Steps(r)

Spec == Init /\ [][Next]_vars

\* Overlapping invocations for the same table, as Lambda starts them (always
\* with a context); they write (no dry run) one row per batch.
NextConc ==
    \E r \in Runs :
        \/ /\ Startable(r)
           /\ \E f \in BOOLEAN : Invoke(r, f, FALSE, 1, TRUE)
        \/ Steps(r)

SpecConc == InitConc /\ [][NextConc]_vars

\* Two overlapping invocations for different tables: the first for TableName,
\* the second for OtherTableName, each table with or without an item.
InitTables ==
    /\ source \in Sources(MaxConcRows)
    /\ store \in {[t \in Tables |-> IF t = TableName THEN a ELSE b] :
                      a \in InitialItemsFor(TableName),
                      b \in InitialItemsFor(OtherTableName)}
    /\ files = {}
    /\ run = [r \in Runs |-> InitRun]

NextTables ==
    \E r \in Runs :
        \/ /\ Startable(r)
           /\ r <= 2
           /\ \E f \in BOOLEAN :
                 InvokeFor(r, IF r = 1 THEN TableName ELSE OtherTableName,
                           f, FALSE, 1, TRUE)
        \/ Steps(r)

SpecTables == InitTables /\ [][NextTables]_vars

\* no invocation is in flight
Quiet == \A q \in Runs : run[q].pc \in {"start", "done", "error"}

\* Invocations one after the other (a schedule that never overlaps), for every
\* event.
NextSeq ==
    \E r \in Runs :
        \/ /\ Quiet
           /\ Startable(r)
           /\ \E f \in BOOLEAN, d \in BOOLEAN, b \in 1..MaxBatchSize, c \in BOOLEAN :
                 Invoke(r, f, d, b, c)
        \/ Steps(r)

SpecSeq == Init /\ [][NextSeq]_vars

\* A full load re-invoked: two invocations one after the other, each a
\* writing invocation with force_full_load, over the same source.
NextFull ==
    \E r \in Runs :
        \/ /\ Quiet
           /\ Startable(r)
           /\ r <= 2
           /\ \E b \in 1..MaxBatchSize, c \in BOOLEAN : Invoke(r, TRUE, FALSE, b, c)
        \/ ResolveWatermark(r)
        \/ Export(r)

SpecFull == Init /\ [][NextFull]_vars

\* ------------------------------------------------- a stubbed extractor
\* The handler against an extractor that returns any count and yields any
\* batches with any maxima, as tests/test_handler.py stubs it.
MockCountRows(r, row_count) ==
    /\ run[r].pc = "count"
    /\ Counted(r, row_count)
    /\ UNCHANGED <<source, store, files>>

MockNextBatch(r, len, batch_max_wm) ==
    /\ run[r].pc = "next"
    /\ run[r].checks < MaxMockBatches
    /\ Set(r, [run[r] EXCEPT !.pc = "check", !.opened = TRUE,
                             !.streamed_from = <<run[r].watermark>>,
                             !.fetched = @ + len,
                             !.batches = Append(@, [i \in 1..len |-> 0]),
                             !.yielded_max = Append(@, batch_max_wm),
                             !.batch = [i \in 1..len |-> 0],
                             !.batch_max_wm = batch_max_wm])
    /\ UNCHANGED <<source, store, files>>

MockExhausted(r) ==
    /\ run[r].pc = "next"
    /\ Set(r, [run[r] EXCEPT !.pc = "commit", !.opened = TRUE,
                             !.streamed_from = <<run[r].watermark>>,
                             !.exhausted = TRUE,
                             !.batch = <<>>, !.batch_max_wm = NoWm])
    /\ UNCHANGED <<source, store, files>>

NextMock ==
    \E r \in Runs :
        /\ \A q \in Runs : r <= q
        /\ \/ \E f \in BOOLEAN, d \in BOOLEAN, c \in BOOLEAN : Invoke(r, f, d, 1, c)
           \/ ResolveWatermark(r)
           \/ GetWatermarkFails(r)
           \/ \E n \in 0..MaxRows : MockCountRows(r, n)
           \/ GetRowCountFails(r)
           \/ \E len \in 0..MaxBatchSize, w \in WmValues \cup {NoWm} :
                 MockNextBatch(r, len, w)
           \/ MockExhausted(r)
           \/ NextBatchFails(r)
           \/ \E ms \in RemainingMsValues : CheckTimeout(r, ms)
           \/ ProcessBatch(r)
           \/ WriteBatchFails(r)
           \/ Commit(r)
           \/ UpdateWatermarkFails(r)

SpecMock == InitMock /\ [][NextMock]_vars

\* ------------------------------------------------- twin invocations
\* Two invocations that return, the second (for OtherTableName, whose item
\* starts like that of TableName) with the event of the first and in the
\* environment the first met: the stream yields it the batches it yielded the
\* first and ends where it ended for the first, and the time checks give what
\* they gave the first; where the first did not look, anything may happen.
\* Their counts are any two positive numbers.
InitTwin ==
    /\ source = <<>>
    /\ store \in {[t \in Tables |-> {}]}
                  \cup {[t \in Tables |-> {Item(t, w, 1, 0)}] : w \in WmValues}
    /\ files = {}
    /\ run = [r \in Runs |-> InitRun]

TwinInvoke ==
    /\ run[1].pc = "done"
    /\ InvokeFor(2, OtherTableName, run[1].force_full_load, run[1].dry_run,
                 run[1].batch_size, run[1].context)

TwinNextBatch(len, batch_max_wm) ==
    /\ LET k == Len(run[2].batches) + 1
       IN IF k <= Len(run[1].batches)
          THEN /\ len = Len(run[1].batches[k])
               /\ batch_max_wm = run[1].yielded_max[k]
          ELSE ~run[1].exhausted
    /\ MockNextBatch(2, len, batch_max_wm)

TwinExhausted ==
    /\ Len(run[2].batches) >= Len(run[1].batches)
    /\ MockExhausted(2)

TwinCheckTimeout(remaining_ms) ==
    /\ LET j == run[2].checks + 1
       IN j <= run[1].checks
          => (CheckTimeoutFn(run[2].context, remaining_ms, TimeoutBufferSeconds)
                <=> (j = run[1].checks /\ run[1].timeout_reached))
    /\ CheckTimeout(2, remaining_ms)

NextTwin ==
    \/ \E f \in BOOLEAN, d \in BOOLEAN, c \in BOOLEAN : Invoke(1, f, d, 1, c)
    \/ TwinInvoke
    \/ \E r \in 1..2 :
          \/ ResolveWatermark(r)
          \/ \E n \in 1..MaxRows : MockCountRows(r, n)
          \/ ProcessBatch(r)
          \/ Commit(r)
    \/ \E len \in {1, MaxBatchSize}, w \in WmValues :
          \/ MockNextBatch(1, len, w)
          \/ TwinNextBatch(len, w)
    \/ MockExhausted(1)
    \/ TwinExhausted
    \/ \E ms \in RemainingMsValues :
          \/ CheckTimeout(1, ms)
          \/ TwinCheckTimeout(ms)

SpecTwin == InitTwin /\ [][NextTwin]_vars

\* ------------------------------------------------- the query on its own
\* build_query for any watermark, with or without created_at_column, run
\* against the table with any created_at values (NoWm: NULL), as
\* tests/test_extractor.py builds it; the rows of one execution are kept
ExecuteQuery(r, watermark, created_col, created) ==
    /\ r = 1
    /\ run[r].pc = "start"
    /\ run[r].queries = <<>>
    /\ LET q == BuildQuery(watermark)
       IN Set(r, [run[r] EXCEPT !.queries =
              <<[watermark |-> watermark, created_col |-> created_col,
                 rows |-> [k \in 1..Len(q) |->
                             [commit_ts |-> source[q[k]],
                              created_at |-> created[q[k]],
                              op |-> OpOfRow(watermark, created_col,
                                             created[q[k]], source[q[k]])]]]>>])
    /\ UNCHANGED <<source, store, files>>

NextQuery ==
    \E r \in Runs, watermark \in WmValues \cup {NoWm}, created_col \in BOOLEAN :
        \E created \in [1..Len(source) -> WmValues \cup {NoWm}] :
            ExecuteQuery(r, watermark, created_col, created)

SpecQuery == Init /\ [][NextQuery]_vars

\* ------------------------------------------------- exporter.py
\* lambda_handler, lines 83-88
ExporterTables == <<"orders", "customers">>

\* the exception texts the called functions raise with
ErrorTexts == {"Vault Down", "Aurora Connection Failed"}

\* get_snowflake_watermark, line 39: MAX(watermark_col), or the epoch when the
\* table is empty (NoWm: NULL)
SnowflakeWatermark(max) == IF max = NoWm THEN "1970-01-01 00:00:00" ELSE max

\* lambda_handler, lines 125-130: where control goes when a step inside the
\* try block raises while table i is in hand (0: before the loop)
ExceptClauseNextTable(i) ==
    IF i = 0 THEN "return500"
    ELSE IF i < Len(ExporterTables) THEN "next" ELSE "return200"

ExceptClause(i) == "return500"

SetExporter(r, x) == Set(r, [run[r] EXCEPT !.exporter = x])

\* lambda_handler, lines 120-123
Return200(x) ==
    [x EXCEPT !.pc = "done",
              !.response = <<[statusCode |-> 200,
                              body |-> <<"Sync completed successfully">>]>>]

\* a step raises Exception(text) inside the try block
ExporterRaise(x, step, text) ==
    LET to == ExceptClause(x.i)
        y == [x EXCEPT !.raised = Append(@, [step |-> step, i |-> x.i, text |-> text])]
    IN IF to = "return500"
       THEN [y EXCEPT !.pc = "done",
                      !.response = <<[statusCode |-> 500,
                                      body |-> <<"Error: ", text>>]>>]
       ELSE IF to = "next"
       THEN [y EXCEPT !.pc = "watermark", !.i = @ + 1]
       ELSE Return200(y)

\* lambda_handler, lines 78-90: the bucket name is read outside the try block
ExporterInvoke(r, has_bucket) ==
    /\ run[r].pc = "start"
    /\ run[r].exporter.pc = "idle"
    /\ \A q \in Runs : q < r => run[q].exporter.pc \in {"done", "raised"}
    /\ SetExporter(r, IF has_bucket
                      THEN [run[r].exporter EXCEPT !.pc = "secrets"]
                      ELSE [run[r].exporter EXCEPT !.pc = "raised",
                                                   !.uncaught = "KeyError"])
    /\ UNCHANGED <<source, store, files>>

\* lambda_handler, line 93
GetSecrets(r, ok, text) ==
    /\ run[r].exporter.pc = "secrets"
    /\ LET x == [run[r].exporter EXCEPT !.secret_calls = @ + 1]
       IN SetExporter(r, IF ok THEN [x EXCEPT !.pc = "params"]
                         ELSE ExporterRaise(x, "get_secrets", text))
    /\ UNCHANGED <<source, store, files>>

\* lambda_handler, lines 95-111: the parameters are picked from the secret (a
\* missing key raises KeyError) and the loop takes the first table
BuildParams(r, ok) ==
    /\ run[r].exporter.pc = "params"
    /\ SetExporter(r, IF ok THEN [run[r].exporter EXCEPT !.pc = "watermark", !.i = 1]
                      ELSE ExporterRaise(run[r].exporter, "params", "KeyError"))
    /\ UNCHANGED <<source, store, files>>

\* lambda_handler, lines 112-116
GetSnowflakeWatermark(r, max, ok, text) ==
    /\ run[r].exporter.pc = "watermark"
    /\ LET x == [run[r].exporter EXCEPT
                   !.watermark_calls = Append(@, ExporterTables[run[r].exporter.i])]
       IN SetExporter(r, IF ok
                         THEN [x EXCEPT !.pc = "export",
                                        !.watermark = <<SnowflakeWatermark(max)>>]
                         ELSE ExporterRaise(x, "get_snowflake_watermark", text))
    /\ UNCHANGED <<source, store, files>>

\* lambda_handler, lines 111-123: the export, then the next table or the
\* successful return
ExportFromAurora(r, ok, text) ==
    /\ run[r].exporter.pc = "export"
    /\ LET x == [run[r].exporter EXCEPT
                   !.export_calls = Append(@, [table_name |-> ExporterTables[run[r].exporter.i],
                                               watermark |-> run[r].exporter.watermark[1]]),
                   !.watermark = <<>>]
       IN SetExporter(r, IF ~ok THEN ExporterRaise(x, "export_from_aurora", text)
                         ELSE IF x.i < Len(ExporterTables)
                         THEN [x EXCEPT !.pc = "watermark", !.i = @ + 1]
                         ELSE Return200(x))
    /\ UNCHANGED <<source, store, files>>

InitExporter == InitWith({<<>>}) /\ store = [t \in Tables |-> {}]

NextExporter ==
    \E r \in Runs :
        \/ \E has_bucket \in BOOLEAN : ExporterInvoke(r, has_bucket)
        \/ \E ok \in BOOLEAN, text \in ErrorTexts : GetSecrets(r, ok, text)
        \/ \E ok \in BOOLEAN : BuildParams(r, ok)
        \/ \E max \in WmValues \cup {NoWm}, ok \in BOOLEAN, text \in ErrorTexts :
              GetSnowflakeWatermark(r, max, ok, text)
        \/ \E ok \in BOOLEAN, text \in ErrorTexts : ExportFromAurora(r, ok, text)

SpecExporter == InitExporter /\ [][NextExporter]_vars

\* ------------------------------------------------- a writer on its own
\* One S3ParquetWriter instance (that of execution 1) receiving any sequence of
\* write_batch calls: empty or not, succeeding or raising, as
\* tests/test_writer.py drives it.
WriterWriteBatch(r, len, fails) ==
    /\ r = 1
    /\ run[r].pc = "start"
    /\ Len(run[r].writes) < MaxWrites
    /\ LET out == WriteBatchCall(run[r], r, [i \in 1..len |-> 0], fails)
       IN /\ files' = out.files
          /\ Set(r, out.rec)
    /\ UNCHANGED <<source, store>>

NextWriter ==
    \E r \in Runs, len \in 0..MaxBatchSize, fails \in BOOLEAN :
        WriterWriteBatch(r, len, fails)

SpecWriter == InitMock /\ [][NextWriter]_vars

\* ------------------------------------------- a watermark manager on its own
\* One WatermarkManager receiving any sequence of update_watermark calls for
\* the table, with any expected previous watermark, as tests/test_watermark.py
\* drives it; the caller (execution 1) keeps the outcomes.
ManagerUpdateWatermark(r, new_watermark, previous_watermark, fails) ==
    /\ r = 1
    /\ run[r].pc = "start"
    /\ Len(run[r].wm_calls) < MaxCalls
    /\ LET out == UpdateWatermarkCall(TableName, new_watermark, 1, r,
                                      previous_watermark, fails)
       IN /\ store' = out.store
          /\ Set(r, [run[r] EXCEPT !.wm_calls =
                        Append(@, CallRecord(out, new_watermark, previous_watermark,
                                             1, 0))])
    /\ UNCHANGED <<source, files>>

NextManager ==
    \E r \in Runs, w \in WmValues, p \in WmValues \cup {NoWm}, fails \in BOOLEAN :
        ManagerUpdateWatermark(r, w, p, fails)

SpecManager == InitMock /\ [][NextManager]_vars

\* ------------------------------------------- the database connection
\* The module-level _connection of extractor.py ("none": None, else the state
\* of the connection object) and the _conn an extractor caches, through the
\* calls the handler makes on one extractor: get_row_count, then
\* extract_batches.  A container serves one invocation at a time; a warm start
\* finds the _connection the invocation before it left.
\* get_connection, lines 29-60: probe the connection if there is one, replace
\* it when the probe fails, connect when there is none
GetConnection(c, connect_ok) ==
    LET probed == c.connection # "none"
        kept == c.connection = "alive"
    IN IF kept
       THEN [c EXCEPT !.probes = @ + 1]
       ELSE IF connect_ok
       THEN [c EXCEPT !.probes = IF probed THEN @ + 1 ELSE @,
                      !.connection = "alive", !.connects = @ + 1]
       ELSE [c EXCEPT !.probes = IF probed THEN @ + 1 ELSE @,
                      !.connection = "none", !.raised = "ExtractionError"]

\* DataExtractor._get_connection, lines 110-114
ExtractorGetConnection(c, connect_ok) ==
    IF c.extractor_conn THEN c
    ELSE LET g == GetConnection(c, connect_ok)
         IN [g EXCEPT !.extractor_conn = g.raised = ""]

\* handler, lines 131-133: a new extractor in a cold or a warm container
ConnInvoke(r, warm) ==
    /\ run[r].pc = "start"
    /\ run[r].conn.pc = "idle"
    /\ \A q \in Runs : q < r => run[q].conn.pc = "done"
    /\ Set(r, [run[r] EXCEPT !.conn.pc = "count",
                             !.conn.connection =
                                 IF warm /\ r > 1 THEN run[r - 1].conn.connection
                                 ELSE "none"])
    /\ UNCHANGED <<source, store, files>>

\* the server or the network drops the connection
ConnectionGoesStale(r) ==
    /\ run[r].conn.connection = "alive"
    /\ \A q \in Runs : q > r => run[q].conn.pc = "idle"
    /\ Set(r, [run[r] EXCEPT !.conn.connection = "stale"])
    /\ UNCHANGED <<source, store, files>>

\* get_row_count, lines 205-230, and what the handler does with the count
ConnGetRowCount(r, connect_ok, row_count) ==
    /\ run[r].conn.pc = "count"
    /\ LET c == ExtractorGetConnection(run[r].conn, connect_ok)
       IN Set(r, [run[r] EXCEPT !.conn =
              IF c.raised # "" THEN [c EXCEPT !.pc = "done"]
              ELSE [c EXCEPT !.row_count = row_count,
                             !.pc = IF row_count = 0 THEN "done" ELSE "stream"]])
    /\ UNCHANGED <<source, store, files>>

\* extract_batches, lines 173-181: get the connection and open the stream on
\* it; a stale connection raises psycopg2.Error, hence ExtractionError
ConnExtractBatches(r, connect_ok) ==
    /\ run[r].conn.pc = "stream"
    /\ LET c == ExtractorGetConnection(run[r].conn, connect_ok)
           checked == c.probes > run[r].conn.probes \/ c.connects > run[r].conn.connects
       IN Set(r, [run[r] EXCEPT !.conn =
              IF c.raised # "" THEN [c EXCEPT !.pc = "done"]
              ELSE [c EXCEPT !.pc = "done",
                             !.opened_on = Append(@, [connection |-> c.connection,
                                                      checked |-> checked]),
                             !.raised = IF c.connection = "stale"
                                        THEN "ExtractionError" ELSE ""]])
    /\ UNCHANGED <<source, store, files>>

NextConn ==
    \E r \in Runs :
        \/ \E warm \in BOOLEAN : ConnInvoke(r, warm)
        \/ ConnectionGoesStale(r)
        \/ \E connect_ok \in BOOLEAN, row_count \in 0..MaxRows :
              ConnGetRowCount(r, connect_ok, row_count)
        \/ \E connect_ok \in BOOLEAN : ConnExtractBatches(r, connect_ok)

SpecConn == InitExporter /\ [][NextConn]_vars

\* ------------------------------- the three methods of a watermark manager
\* One WatermarkManager receiving any sequence of get_watermark, get_state and
\* update_watermark calls for the table, each client call succeeding or
\* raising (exc: "" or what the client raises).  The caller (execution 1)
\* keeps the last call, and with it the watermark of the latest successful
\* update_watermark (last_commit) and the value get_watermark returned since
\* then (last_read).
StoreCallRecord(r, op, exc, raised, returned) ==
    [op |-> op, exc |-> exc, client_calls |-> 1, raised |-> raised,
     returned |-> returned,
     new_watermark |-> NoWm, previous_watermark |-> NoWm, rows_exported |-> 0,
     commit_before |-> run[r].last_commit, read_before |-> run[r].last_read]

StoreGetWatermark(r, exc) ==
    /\ r = 1
    /\ run[r].pc = "start"
    /\ LET raised == IF exc = "" THEN "" ELSE ExceptClientError(exc)
           returned == IF exc = "" THEN <<GetWatermark(TableName)>> ELSE <<>>
       IN Set(r, [run[r] EXCEPT
                !.store_call = <<StoreCallRecord(r, "get_watermark", exc, raised,
                                                 returned)>>,
                !.last_read = IF exc = "" THEN returned ELSE @])
    /\ UNCHANGED <<source, store, files>>

StoreGetState(r, exc) ==
    /\ r = 1
    /\ run[r].pc = "start"
    /\ LET raised == IF exc = "" THEN "" ELSE ExceptClientError(exc)
           returned == IF exc = "" THEN <<GetState(TableName)>> ELSE <<>>
       IN Set(r, [run[r] EXCEPT
                !.store_call = <<StoreCallRecord(r, "get_state", exc, raised,
                                                 returned)>>])
    /\ UNCHANGED <<source, store, files>>

StoreUpdateWatermark(r, new_watermark, previous_watermark, rows_exported, exc) ==
    /\ r = 1
    /\ run[r].pc = "start"
    /\ LET out == UpdateWatermarkCall(TableName, new_watermark, rows_exported, r,
                                      previous_watermark, exc = "ClientError")
           ok == exc = "" /\ out.ok
           raised == IF exc # "" THEN ExceptClientError(exc) ELSE out.error
           call == [StoreCallRecord(r, "update_watermark", exc, raised, <<>>)
                      EXCEPT !.new_watermark = new_watermark,
                             !.previous_watermark = previous_watermark,
                             !.rows_exported = rows_exported]
       IN /\ store' = IF ok THEN out.store ELSE store
          /\ Set(r, [run[r] EXCEPT
                   !.store_call = <<call>>,
                   !.last_commit = IF ok THEN <<new_watermark>> ELSE @,
                   !.last_read = IF ok THEN <<>> ELSE @])
    /\ UNCHANGED <<source, files>>

NextStore ==
    \E r \in Runs, exc \in ClientFailures \cup {""} :
        \/ StoreGetWatermark(r, exc)
        \/ StoreGetState(r, exc)
        \/ \E w \in WmValues, p \in WmValues \cup {NoWm}, n \in 1..MaxRows :
              StoreUpdateWatermark(r, w, p, n, exc)

SpecStore == InitMock /\ [][NextStore]_vars

\* ---------------------------------------------------------- properties
Range(s) == {s[i] : i \in DOMAIN s}

\* the objects an invocation wrote and the rows they hold
FilesOf(r) == {f \in files : f.key[1] = r}

RowsOf(r) == UNION {Range(f.rows) : f \in FilesOf(r)}

MaxWmOf(rows) == IF rows = {} THEN NoWm
                 ELSE CHOOSE w \in {source[i] : i \in rows} :
                         \A i \in rows : source[i] <= w

\* the update_watermark calls of an invocation, and the accepted ones
Calls(r) == Range(run[r].wm_calls)

Commits(r) == {c \in Calls(r) : c.ok}

Ended(r) == run[r].pc \in {"done", "error"}

\* the j-th batch the stream of an invocation yields
BatchNo(r, j) ==
    LET query == BuildQuery(run[r].watermark)
    IN SubSeq(query, (j - 1) * run[r].batch_size + 1,
              Min(j * run[r].batch_size, Len(query)))

\* C1: among invocations for the same table that pass the same expected
\* previous watermark to update_watermark, at most one call is accepted and
\* every other one is rejected; the accepted item stays in the store until an
\* invocation that started from it replaces it.
C1_OneCommitPerStartingWatermark ==
    \A a \in Runs : \A ca \in Commits(a) :
        /\ \A b \in Runs \ {a} : \A cb \in Calls(b) :
              cb.previous_watermark = ca.previous_watermark => ~cb.ok
        /\ \/ store[TableName] =
                 {Item(TableName, ca.new_watermark, ca.rows_exported, a)}
           \/ \E c \in Runs \ {a} : \E cc \in Commits(c) :
                 cc.previous_watermark = ca.new_watermark

C1_Witness ==
    \E a, b \in Runs :
        /\ a # b
        /\ ~run[a].force_full_load /\ ~run[b].force_full_load
        /\ run[a].watermark = run[b].watermark
        /\ Commits(a) # {}
        /\ Calls(b) # {} /\ Commits(b) = {}
        /\ run[b].error = "WatermarkError"
        /\ FilesOf(a) # {} /\ FilesOf(b) # {}

\* C2: after a timed-out invocation that started from W0 and committed W, and
\* a following incremental invocation that started from W and ran to the end
\* of its stream, every source row above W0 is in a file of one of the two.
C2_ResumeSkipsNoRow ==
    \A a, b \in Runs :
        ( /\ a # b
          /\ run[a].pc = "done" /\ ~run[a].dry_run /\ run[a].timeout_reached
          /\ Commits(a) # {}
          /\ run[b].pc = "done" /\ ~run[b].dry_run /\ ~run[b].timeout_reached
          /\ ~run[b].force_full_load
          /\ \E ca \in Commits(a) : run[b].watermark = ca.new_watermark )
        => \A i \in 1..Len(source) :
              Where(run[a].watermark, i) => i \in RowsOf(a) \cup RowsOf(b)

\* C3: every row in a file of an invocation that calls update_watermark has a
\* watermark value <= the watermark it passes and, when the invocation started
\* from a stored watermark, > that watermark.
C3_FilesWithinCommittedRange ==
    \A r \in Runs : \A c \in Calls(r) : \A i \in RowsOf(r) :
        /\ source[i] <= c.new_watermark
        /\ run[r].watermark # NoWm => source[i] > run[r].watermark

C3_Witness ==
    \E r \in Runs :
        /\ run[r].pc = "done" /\ run[r].watermark # NoWm
        /\ Commits(r) # {}
        /\ Cardinality(FilesOf(r)) >= 2
        /\ Cardinality(RowsOf(r)) >= 3

\* C4: whatever batches and batch maxima the extractor yields, an invocation
\* that started from a watermark W0 never passes a new_watermark below W0.
C4_NeverCommitsBelowStart ==
    \A r \in Runs : \A c \in Calls(r) :
        run[r].watermark # NoWm => c.new_watermark >= run[r].watermark

C4_Witness ==
    \E r \in Runs : \E c \in Calls(r) :
        /\ run[r].watermark # NoWm
        /\ c.new_watermark >= run[r].watermark
        /\ \E j \in DOMAIN run[r].processed :
              /\ run[r].processed[j] # NoWm
              /\ run[r].processed[j] < run[r].watermark

\* C5: an invocation in which get_watermark, get_row_count, the stream or
\* write_batch raised has made no update_watermark call, and the stored item
\* is not one it wrote.
C5_NoCommitAfterError ==
    \A r \in Runs :
        run[r].raised_by \in {"get_watermark", "get_row_count",
                              "extract_batches", "write_batch"}
        => /\ Calls(r) = {}
           /\ \A it \in store[TableName] : it.execution_id # r

C5_Witness ==
    \E r \in Runs :
        /\ run[r].pc = "error"
        /\ run[r].raised_by = "write_batch"
        /\ Cardinality(FilesOf(r)) >= 1
        /\ Calls(r) = {}

\* C6: an invocation that exported no row makes no update_watermark call:
\* every call carries rows_exported > 0, and a result with rows_exported = 0
\* comes with no call (count 0, empty stream, timeout at the first check).
C6_NoCommitWithoutRows ==
    \A r \in Runs :
        /\ \A c \in Calls(r) : c.rows_exported > 0
        /\ (run[r].pc = "done" /\ run[r].result[1].rows_exported = 0)
              => Calls(r) = {}

C6_Witness ==
    \E r \in Runs :
        /\ run[r].pc = "done"
        /\ ~run[r].dry_run
        /\ run[r].watermark # NoWm
        /\ run[r].row_count > 0
        /\ run[r].checks = 0
        /\ run[r].result[1].rows_exported = 0
        /\ Calls(r) = {}

\* C7: a dry run calls neither write_batch nor update_watermark; no object and
\* no stored item is its own.
C7_DryRunTouchesNothing ==
    \A r \in Runs :
        run[r].dry_run
        => /\ run[r].write_calls = 0
           /\ Calls(r) = {}
           /\ files = {}
           /\ \A it \in store[TableName] : it.execution_id # r

C7_Witness ==
    \E r \in Runs :
        /\ run[r].pc = "done" /\ run[r].dry_run
        /\ run[r].timeout_reached
        /\ run[r].result[1].rows_exported >= 2
        /\ Len(run[r].processed) >= 2

\* C8: a writing invocation whose (k+1)-th timeout check, k >= 1, is the first
\* to report exhaustion has written exactly the first k batches of its stream,
\* has passed the largest watermark of those batches to update_watermark, and,
\* when it returns, reports timeout_reached with the partial-export message
\* and has that watermark stored.
C8_TimeoutCommitsProcessedMaximum ==
    \A r \in Runs :
        ( /\ Ended(r) /\ ~run[r].dry_run /\ run[r].timeout_reached
          /\ run[r].checks >= 2 )
        => LET k == run[r].checks - 1
           IN /\ FilesOf(r) = {[key |-> GenerateKey(r, j), rows |-> BatchNo(r, j)] :
                                  j \in 1..k}
              /\ \E c \in Calls(r) :
                    /\ run[r].wm_calls = <<c>>
                    /\ c.new_watermark = MaxWmOf(RowsOf(r))
                    /\ c.new_watermark = SeqMax(run[r].processed)
              /\ run[r].pc = "done" =>
                    /\ run[r].result[1].timeout_reached
                    /\ run[r].result[1].message = "Partial export due to timeout"
                    /\ run[r].result[1].new_watermark =
                          Isoformat(MaxWmOf(RowsOf(r)))
                    /\ GetWatermark(TableName) = MaxWmOf(RowsOf(r))

C8_Witness ==
    \E r \in Runs :
        /\ run[r].pc = "done" /\ ~run[r].dry_run /\ run[r].timeout_reached
        /\ run[r].checks = 3
        /\ Cardinality(FilesOf(r)) = 2
        /\ Commits(r) # {}
        /\ MaxWmOf(RowsOf(r)) < MaxWmOf(1..Len(source))

\* C9: an invocation calls update_watermark at most once and makes no
\* write_batch call after it; a writing invocation that returns a result with
\* rows_exported > 0 and a watermark has called it exactly once, timed out or
\* not.
C9_CommitOnceAfterLastWrite ==
    \A r \in Runs :
        /\ Len(run[r].wm_calls) <= 1
        /\ \A c \in Calls(r) : c.writes_before = run[r].write_calls
        /\ ( /\ run[r].pc = "done" /\ ~run[r].dry_run
             /\ run[r].result[1].rows_exported > 0
             /\ run[r].result[1].new_watermark # <<>> )
           => Len(run[r].wm_calls) = 1

C9_Witness ==
    \E r \in Runs :
        /\ run[r].pc = "done" /\ ~run[r].dry_run
        /\ run[r].timeout_reached
        /\ run[r].write_calls >= 2
        /\ Len(run[r].wm_calls) = 1

\* C10: a writing invocation that returns without timeout has exported every
\* row of its query, and the watermark it committed is the largest watermark
\* value among them and is not below the watermark it started from.
C10_FullRunCommitsTrueMaximum ==
    \A r \in Runs :
        ( /\ run[r].pc = "done" /\ ~run[r].dry_run /\ ~run[r].timeout_reached
          /\ run[r].row_count > 0 )
        => /\ RowsOf(r) = Range(BuildQuery(run[r].watermark))
           /\ \E c \in Commits(r) :
                 /\ run[r].wm_calls = <<c>>
                 /\ c.new_watermark = MaxWmOf(RowsOf(r))
                 /\ c.new_watermark >= run[r].watermark
                 /\ GetWatermark(TableName) = c.new_watermark

C10_Witness ==
    \E r \in Runs :
        /\ run[r].pc = "done" /\ ~run[r].dry_run /\ ~run[r].timeout_reached
        /\ run[r].watermark # NoWm
        /\ Cardinality(FilesOf(r)) >= 2
        /\ Cardinality(RowsOf(r)) >= 3
        /\ \E c \in Commits(r) : c.new_watermark > run[r].watermark

\* the most recent update_watermark call of an invocation
LastCall(r) == run[r].wm_calls[Len(run[r].wm_calls)]

\* C11: an invocation whose update_watermark call was rejected by the condition
\* has raised (WatermarkError from update_watermark), has no result, has made
\* that one call only, and the stored item is one another execution wrote.
C11_ConflictSurfacesAsError ==
    \A r \in Runs : \A c \in Calls(r) :
        c.conflict
        => /\ run[r].pc = "error"
           /\ run[r].error = "WatermarkError"
           /\ run[r].raised_by = "update_watermark"
           /\ run[r].result = <<>>
           /\ Len(run[r].wm_calls) = 1
           /\ store[TableName] # {}
           /\ \A it \in store[TableName] : it.execution_id # r

C11_Witness ==
    \E a, b \in Runs :
        /\ a # b
        /\ \E c \in Calls(b) : c.conflict /\ c.previous_watermark # NoWm
        /\ run[b].pc = "error" /\ run[b].result = <<>>
        /\ \E it \in store[TableName] : it.execution_id = a

\* C12: every update_watermark call without an expected previous watermark is
\* accepted only when the table holds no item for table_name, and then leaves
\* its own item; when an item exists the call is rejected as a conflict and
\* the table (the item with all its fields) is unchanged.
C12_AbsentPreviousNeedsNoRecord ==
    [][\A r \in Runs :
          ( /\ Len(run'[r].wm_calls) = Len(run[r].wm_calls) + 1
            /\ LastCall(r)'.previous_watermark = NoWm )
          => /\ LastCall(r)'.ok =>
                   /\ store[TableName] = {}
                   /\ store'[TableName] = {Item(TableName, LastCall(r)'.new_watermark,
                                                LastCall(r)'.rows_exported, r)}
             /\ store[TableName] # {} =>
                   /\ ~LastCall(r)'.ok
                   /\ LastCall(r)'.error = "WatermarkError"
                   /\ store' = store
             /\ ~LastCall(r)'.ok => store' = store]_vars

C12_Witness ==
    \E r \in Runs :
        /\ Len(run[r].wm_calls) = 2
        /\ run[r].wm_calls[1].previous_watermark = NoWm /\ run[r].wm_calls[1].ok
        /\ run[r].wm_calls[2].previous_watermark = NoWm /\ run[r].wm_calls[2].conflict
        /\ store[TableName] = {Item(TableName, run[r].wm_calls[1].new_watermark, 1, r)}
        /\ run[r].wm_calls[2].new_watermark # run[r].wm_calls[1].new_watermark

\* C13: an update_watermark call with an expected previous watermark P is
\* accepted only when the table holds an item whose watermark string is that
\* of P, and then leaves its own item; when there is no such item (another
\* value, or no item) it fails with WatermarkError; the condition never
\* rejects it when the item matches; every call that is not accepted leaves
\* the table unchanged.
C13_PresentPreviousNeedsEqualRecord ==
    [][\A r \in Runs :
          ( /\ Len(run'[r].wm_calls) = Len(run[r].wm_calls) + 1
            /\ LastCall(r)'.previous_watermark # NoWm )
          => LET matches == \E it \in store[TableName] :
                               it.watermark =
                                  Isoformat(LastCall(r)'.previous_watermark)
             IN /\ LastCall(r)'.ok =>
                      /\ matches
                      /\ store'[TableName] =
                            {Item(TableName, LastCall(r)'.new_watermark,
                                  LastCall(r)'.rows_exported, r)}
                /\ ~matches => ~LastCall(r)'.ok /\ LastCall(r)'.error = "WatermarkError"
                /\ matches => ~LastCall(r)'.conflict
                /\ ~LastCall(r)'.ok => store' = store]_vars

C13_Witness ==
    \E r \in Runs :
        /\ Len(run[r].wm_calls) = 2
        /\ run[r].wm_calls[1].previous_watermark # NoWm /\ run[r].wm_calls[1].ok
        /\ run[r].wm_calls[2].previous_watermark
              = run[r].wm_calls[1].previous_watermark
        /\ run[r].wm_calls[2].conflict
        /\ run[r].wm_calls[1].new_watermark # run[r].wm_calls[1].previous_watermark

\* C14: the error raised by update_watermark for a failed condition is of
\* another kind than the error it raises for any other storage failure.
C14_ConflictKindDistinct ==
    \A r \in Runs : \A a, b \in Calls(r) :
        (a.conflict /\ ~b.ok /\ ~b.conflict) => a.error # b.error

\* C15: for every sequence of batches an extractor yields (batch maxima null,
\* or below an earlier one), the handler's max_watermark after N processed
\* batches is at least its value after N-1, and after the first batch at
\* least the starting watermark (None counting as the lowest value).
C15_AccumulatedMaximumNeverRegresses ==
    \A r \in Runs : \A j \in DOMAIN run[r].maxima :
        run[r].maxima[j] >= (IF j = 1 THEN run[r].watermark ELSE run[r].maxima[j - 1])

C15_Witness ==
    \E r \in Runs :
        /\ Len(run[r].processed) = 2
        /\ run[r].processed[1] = MaxWm
        /\ run[r].processed[2] # NoWm /\ run[r].processed[2] < MaxWm
        /\ run[r].maxima = <<MaxWm, MaxWm>>

\* C16: in the keys one writer generated, over any sequence of write_batch
\* calls (uploaded, raising, empty), batch numbers strictly increase and no key
\* occurs twice.
C16_KeysStrictlyIncrease ==
    \A r \in Runs : \A i, j \in DOMAIN run[r].keys :
        i < j => /\ run[r].keys[i][2] < run[r].keys[j][2]
                 /\ run[r].keys[i] # run[r].keys[j]

C16_Witness ==
    \E r \in Runs :
        /\ Len(run[r].writes) = 3
        /\ run[r].writes[1].raised
        /\ run[r].writes[2].len = 0
        /\ run[r].writes[3].returned = GenerateKey(r, 2)
        /\ Len(run[r].keys) = 2

\* C17: get_written_files() of a writer equals the number of its write_batch
\* calls that completed their upload.
C17_WrittenFilesCountsUploads ==
    \A r \in Runs : GetWrittenFiles(run[r]) = run[r].uploads

\* C18: a write_batch call with an empty row list returns the empty key, does
\* not raise, and leaves the batch counter, the generated keys, the uploads
\* and the bucket as they were; _convert_to_arrow of an empty row list is a
\* WriterError.
C18_EmptyBatchIsNoOp ==
    /\ ConvertToArrow(<<>>) = "WriterError"
    /\ [][\A r \in Runs :
             ( /\ Len(run'[r].writes) = Len(run[r].writes) + 1
               /\ run'[r].writes[Len(run'[r].writes)].len = 0 )
             => /\ run'[r].writes[Len(run'[r].writes)].returned = <<>>
                /\ ~run'[r].writes[Len(run'[r].writes)].raised
                /\ run'[r].batch_counter = run[r].batch_counter
                /\ run'[r].keys = run[r].keys
                /\ run'[r].uploads = run[r].uploads
                /\ files' = files]_vars

C18_Witness ==
    \E r \in Runs :
        /\ Len(run[r].writes) = 2
        /\ run[r].writes[1].returned = GenerateKey(r, 1)
        /\ run[r].writes[2].len = 0 /\ run[r].writes[2].returned = <<>>
        /\ run[r].batch_counter = 1
        /\ Cardinality(files) = 1

\* C19: with force_full_load the count, the stream and the expected previous
\* watermark of the commit all get None, whatever the store holds, and
\* get_watermark is not asked; without it all three get the value
\* get_watermark returned, and when that is None (no item) the count and the
\* stream cover the whole table.
C19_StartingWatermarkResolution ==
    \A r \in Runs :
        LET start == IF run[r].force_full_load THEN <<NoWm>> ELSE run[r].got
        IN /\ run[r].force_full_load => run[r].got = <<>>
           /\ (~run[r].force_full_load /\ run[r].pc \notin {"start", "resolve"}
                  /\ run[r].identifiers = <<TRUE, TRUE, TRUE>>
                  /\ run[r].raised_by # "get_watermark") => run[r].got # <<>>
           /\ run[r].counted_from \in {<<>>, start}
           /\ run[r].streamed_from \in {<<>>, start}
           /\ \A c \in Calls(r) : <<c.previous_watermark>> = start
           /\ (start = <<NoWm>> /\ run[r].counted_from # <<>>)
                 => run[r].row_count = Len(source)
           /\ (start = <<NoWm>> /\ run[r].pc = "done" /\ ~run[r].dry_run
                  /\ ~run[r].timeout_reached)
                 => RowsOf(r) = 1..Len(source)

C19_Witness ==
    \E r \in Runs :
        /\ run[r].force_full_load /\ ~run[r].dry_run
        /\ \E it \in store[TableName] : it.execution_id # r
        /\ run[r].counted_from = <<NoWm>> /\ run[r].streamed_from = <<NoWm>>
        /\ \E c \in Calls(r) : c.previous_watermark = NoWm
        /\ RowsOf(r) = 1..Len(source) /\ Len(source) >= 2

\* the rows of the j-th object of an invocation, and the rows of its first n
\* objects in key order
FileRows(r, j) ==
    LET fs == {f \in files : f.key = GenerateKey(r, j)}
    IN IF fs = {} THEN <<>> ELSE (CHOOSE f \in fs : TRUE).rows

RECURSIVE Written(_, _)
Written(r, n) == IF n = 0 THEN <<>> ELSE Written(r, n - 1) \o FileRows(r, n)

WrittenRows(r) == Written(r, Cardinality(FilesOf(r)))

\* a force_full_load invocation that wrote its whole stream (it returned, or
\* only its update_watermark call raised)
FullLoadWritten(r) ==
    /\ Ended(r) /\ run[r].force_full_load /\ ~run[r].dry_run
    /\ ~run[r].timeout_reached
    /\ run[r].pc = "done" \/ run[r].raised_by = "update_watermark"

\* C20: after two successive force_full_load invocations that each wrote their
\* whole stream over the same source, the objects of each, read in key order,
\* hold every source row exactly once in ascending watermark order, and no key
\* of one is a key of the other (no object was overwritten).
C20_RepeatedFullLoadsIndependent ==
    \A a, b \in Runs :
        (a # b /\ FullLoadWritten(a) /\ FullLoadWritten(b))
        => /\ \A r \in {a, b} :
                 LET w == WrittenRows(r)
                 IN /\ Len(w) = Len(source)
                    /\ Range(w) = 1..Len(source)
                    /\ \A i, j \in DOMAIN w : i < j => source[w[i]] <= source[w[j]]
           /\ {f.key : f \in FilesOf(a)} \cap {f.key : f \in FilesOf(b)} = {}
           /\ Cardinality(files) = Cardinality(FilesOf(a)) + Cardinality(FilesOf(b))

C20_Witness ==
    \E a, b \in Runs :
        /\ a # b /\ FullLoadWritten(a) /\ FullLoadWritten(b)
        /\ Len(source) = MaxRows /\ source[1] # source[Len(source)]
        /\ Cardinality(FilesOf(a)) >= 2 /\ Cardinality(FilesOf(b)) >= 2
        /\ Cardinality(FilesOf(a)) # Cardinality(FilesOf(b))
        /\ run[a].pc = "done" /\ run[b].pc = "error"

\* C26: with an invocation for one table overlapping an invocation for
\* another, an update_watermark call of either leaves the item of the other
\* table as it was, and is rejected by the condition only for a reason of its
\* own table: it ran with force_full_load while its table already held the
\* item of an earlier execution.
C26_TablesDoNotInterfere ==
    [][\A r \in Runs :
          Len(run'[r].wm_calls) = Len(run[r].wm_calls) + 1
          => /\ \A t \in Tables \ {run[r].table_name} : store'[t] = store[t]
             /\ LastCall(r)'.conflict =>
                   /\ run[r].force_full_load
                   /\ \E it \in store[run[r].table_name] :
                         it.execution_id = 0 /\ it.table_name = run[r].table_name]_vars

C26_Witness ==
    \E a, b \in Runs :
        /\ run[a].table_name = TableName /\ run[b].table_name = OtherTableName
        /\ ~run[a].force_full_load /\ ~run[b].force_full_load
        /\ run[a].watermark = run[b].watermark
        /\ Commits(a) # {} /\ Commits(b) # {}
        /\ \E it \in store[TableName] : it.execution_id = a
        /\ \E it \in store[OtherTableName] : it.execution_id = b

\* C21: check_timeout is true exactly when there is a context and its
\* remaining milliseconds are strictly below buffer_seconds * 1000; an
\* invocation without context never sets timeout_reached and, when it
\* returns, has processed every batch of its stream.
C21_TimeoutOnlyWithContext ==
    /\ \A c \in BOOLEAN, ms \in RemainingMsValues,
          b \in {0, 30, TimeoutBufferSeconds, 300} :
          CheckTimeoutFn(c, ms, b) <=> (c /\ ms < b * 1000)
    /\ \A r \in Runs :
          (run[r].pc # "start" /\ ~run[r].context)
          => /\ ~run[r].timeout_reached
             /\ (run[r].pc = "done" /\ run[r].row_count > 0) =>
                   LET n == Len(BuildQuery(run[r].watermark))
                   IN /\ Len(run[r].processed)
                           = (n + run[r].batch_size - 1) \div run[r].batch_size
                      /\ run[r].result[1].rows_exported = n
                      /\ ~run[r].dry_run =>
                            RowsOf(r) = Range(BuildQuery(run[r].watermark))

C21_Witness ==
    \E r \in Runs :
        /\ run[r].pc = "done" /\ ~run[r].context /\ ~run[r].dry_run
        /\ run[r].checks >= 2
        /\ Len(run[r].processed) = run[r].checks
        /\ ~run[r].result[1].timeout_reached

\* C22: build_query(None) selects every row of the table, build_query(W)
\* exactly the rows whose watermark value is strictly above W, each row once,
\* in ascending order of the watermark column; get_row_count(w) is the number
\* of rows build_query(w) selects.
C22_QuerySelectsStrictlyAbove ==
    \A w \in WmValues \cup {NoWm} :
        LET q == BuildQuery(w)
        IN /\ Range(q) = {i \in 1..Len(source) : w = NoWm \/ source[i] > w}
           /\ Cardinality(Range(q)) = Len(q)
           /\ \A i, j \in DOMAIN q : i < j => source[q[i]] <= source[q[j]]
           /\ GetRowCount(w) = Len(q)

C22_Witness ==
    \E r \in Runs : \E w \in WmValues :
        /\ run[r].counted_from = <<w>> /\ run[r].streamed_from = <<w>>
        /\ \E i \in 1..Len(source) : source[i] = w
        /\ run[r].row_count >= 1 /\ run[r].row_count < Len(source)
        /\ Len(source) = MaxRows

\* the fields the result of an invocation is specified to carry
ResultFields ==
    {"table_name", "rows_exported", "files_written", "execution_id",
     "duration_seconds", "new_watermark", "timeout_reached", "dry_run"}

\* C25: in every result an invocation returns, new_watermark is null or the
\* watermark string stored for the table, and rows_exported is the number of
\* rows in the objects the invocation wrote.
C25_ResultNeverAheadOfCommitted ==
    \A r \in Runs :
        run[r].pc = "done"
        => LET res == run[r].result[1]
           IN /\ ("new_watermark" \in DOMAIN res /\ res.new_watermark # <<>>)
                    => \E it \in store[run[r].table_name] :
                          it.watermark = res.new_watermark
              /\ res.rows_exported = Cardinality(RowsOf(r))

\* C27: every result an invocation returns carries table name, rows exported,
\* files written, run id, duration, new watermark, timeout flag and dry-run
\* flag.
C27_ResultCarriesEveryField ==
    \A r \in Runs :
        run[r].pc = "done" => ResultFields \subseteq DOMAIN run[r].result[1]

\* C24: an invocation whose event has no table_name, or for which a required
\* environment variable or the secret identifier is unset, raises
\* ConfigurationError, having called neither the secret store nor the
\* watermark store nor the source database nor the object store.
C24_ConfigurationErrorBeforeIO ==
    \A r \in Runs :
        (run[r].identifiers # <<>> /\ run[r].identifiers # <<TRUE, TRUE, TRUE>>)
        => /\ run[r].pc = "error"
           /\ run[r].error = "ConfigurationError"
           /\ run[r].result = <<>>
           /\ run[r].secret_fetches = 0
           /\ run[r].got = <<>> /\ run[r].wm_calls = <<>>
           /\ run[r].counted_from = <<>> /\ run[r].streamed_from = <<>>
           /\ run[r].write_calls = 0 /\ FilesOf(r) = {}
           /\ \A t \in Tables : \A it \in store[t] : it.execution_id # r

C24_Witness ==
    \E r \in Runs :
        /\ run[r].identifiers = <<TRUE, FALSE, TRUE>>
        /\ run[r].error = "ConfigurationError"
        /\ run[r].raised_by = "from_env"

\* the rows of a sequence of batches, in order
RECURSIVE Concat(_)
Concat(bs) == IF bs = <<>> THEN <<>> ELSE Head(bs) \o Concat(Tail(bs))

\* C29: the time budget is checked once before each batch is processed; the
\* check that reports exhaustion leaves the batch in hand unwritten, uncounted
\* and out of the accumulated watermark, and after it the run takes no
\* further batch from the stream and makes no write_batch call.
C29_TimeoutStopsBeforeTheBatch ==
    [][\A r \in Runs :
         /\ (run[r].pc = "check" /\ run'[r] # run[r])
            => /\ run'[r].checks = run[r].checks + 1
               /\ run'[r].checks = Len(run[r].batches)
               /\ run'[r].timeout_reached
                  => /\ run'[r].pc = "commit"
                     /\ run'[r].total_rows = run[r].total_rows
                     /\ run'[r].max_watermark = run[r].max_watermark
                     /\ run'[r].write_calls = run[r].write_calls
                     /\ run'[r].processed = run[r].processed
                     /\ files' = files
         /\ run'[r].processed # run[r].processed
            => run[r].checks = Len(run'[r].processed)
         /\ run[r].timeout_reached
            => /\ run'[r].batches = run[r].batches
               /\ run'[r].write_calls = run[r].write_calls
               /\ run'[r].processed = run[r].processed
               /\ FilesOf(r)' = FilesOf(r)
         /\ (run'[r].pc = "done" /\ run[r].pc # "done" /\ run'[r].timeout_reached)
            => run'[r].result[1].rows_exported
                 = Len(Concat(SubSeq(run[r].batches, 1, Len(run[r].batches) - 1)))
      ]_vars

C29_Witness ==
    \E r \in Runs :
        /\ run[r].pc = "done" /\ run[r].timeout_reached
        /\ Len(run[r].batches) = 2 /\ Len(run[r].processed) = 1
        /\ run[r].checks = 2 /\ run[r].write_calls = 1
        /\ run[r].result[1].rows_exported = Len(run[r].batches[1])

\* C30: the batches extract_batches yields are non-empty, all but the last
\* have exactly batch_size rows, and put end to end they are the rows of the
\* cursor in the cursor's order, all of them once the cursor is exhausted.
C30_BatchesPartitionTheCursor ==
    \A r \in Runs :
        run[r].streamed_from # <<>>
        => LET bs == run[r].batches
               cursor == BuildQuery(run[r].streamed_from[1])
               rows == Concat(bs)
           IN /\ \A j \in 1..Len(bs) :
                    /\ bs[j] # <<>>
                    /\ Len(bs[j]) <= run[r].batch_size
                    /\ j < Len(bs) => Len(bs[j]) = run[r].batch_size
              /\ Len(rows) <= Len(cursor)
              /\ rows = SubSeq(cursor, 1, Len(rows))
              /\ run[r].exhausted
                 => /\ rows = cursor
                    /\ (bs # <<>> /\ Len(bs[Len(bs)]) < run[r].batch_size)
                       => Len(cursor) % run[r].batch_size # 0

C30_Witness ==
    \E r \in Runs :
        /\ run[r].exhausted
        /\ run[r].batch_size = 2
        /\ Len(run[r].batches) = 2
        /\ Len(run[r].batches[1]) = 2 /\ Len(run[r].batches[2]) = 1

\* C23: every row of a full load has op insert, whatever the insert-marker
\* column; a row of an incremental load has op insert when an insert-marker
\* column is configured and its value equals the row's watermark value,
\* update when it is configured and differs, and update when none is
\* configured.
C23_OpClassification ==
    \A r \in Runs : \A k \in DOMAIN run[r].queries :
        LET q == run[r].queries[k]
        IN \A j \in DOMAIN q.rows :
             LET row == q.rows[j]
             IN /\ row.op \in {"I", "U"}
                /\ q.watermark = NoWm => row.op = "I"
                /\ (q.watermark # NoWm /\ q.created_col
                      /\ row.created_at = row.commit_ts) => row.op = "I"
                /\ (q.watermark # NoWm /\ q.created_col
                      /\ row.created_at # row.commit_ts) => row.op = "U"
                /\ (q.watermark # NoWm /\ ~q.created_col) => row.op = "U"

C23_Witness ==
    \E r \in Runs : \E k \in DOMAIN run[r].queries :
        LET q == run[r].queries[k]
        IN /\ q.watermark # NoWm /\ q.created_col
           /\ \E i, j \in DOMAIN q.rows :
                /\ q.rows[i].op = "I" /\ q.rows[i].created_at = q.rows[i].commit_ts
                /\ q.rows[j].op = "U" /\ q.rows[j].created_at # NoWm

\* the table names of a sequence of export calls
ExportedTables(x) == [k \in DOMAIN x.export_calls |-> x.export_calls[k].table_name]

\* C28: the exporter's lambda_handler takes the configured tables in list
\* order; it returns status 200 only when the secret fetch and, for every
\* table, the watermark query and the export succeeded, the export having been
\* called once per table; at the first step that raises it returns status 500
\* with the error text, and no later table is queried or exported.
C28_ExporterFailsFast ==
    \A r \in Runs :
        LET x == run[r].exporter
        IN /\ x.watermark_calls = SubSeq(ExporterTables, 1, Len(x.watermark_calls))
           /\ ExportedTables(x) = SubSeq(ExporterTables, 1, Len(x.export_calls))
           /\ Len(x.export_calls) <= Len(x.watermark_calls)
           /\ Len(x.watermark_calls) <= Len(x.export_calls) + 1
           /\ \A k \in DOMAIN x.response :
                 x.response[k].statusCode = 200
                 => /\ x.raised = <<>>
                    /\ x.secret_calls = 1
                    /\ x.watermark_calls = ExporterTables
                    /\ ExportedTables(x) = ExporterTables
           /\ x.raised # <<>>
              => /\ Len(x.raised) = 1
                 /\ x.pc = "done"
                 /\ x.response = <<[statusCode |-> 500,
                                    body |-> <<"Error: ", x.raised[1].text>>]>>
                 /\ Len(x.watermark_calls) <= x.raised[1].i
                 /\ Len(x.export_calls) <= x.raised[1].i

C28_Witness ==
    \E r \in Runs :
        LET x == run[r].exporter
        IN /\ x.raised # <<>>
           /\ x.raised[1].step = "export_from_aurora" /\ x.raised[1].i = 1
           /\ x.response # <<>> /\ x.response[1].statusCode = 500
           /\ Len(x.export_calls) = 1

\* C31: the second element of every tuple extract_batches yields is the
\* largest watermark value among the rows of that batch.
C31_YieldedMaximumIsBatchMaximum ==
    \A r \in Runs :
        /\ Len(run[r].yielded_max) = Len(run[r].batches)
        /\ \A j \in DOMAIN run[r].batches :
              /\ \E i \in Range(run[r].batches[j]) : source[i] = run[r].yielded_max[j]
              /\ \A i \in Range(run[r].batches[j]) : source[i] <= run[r].yielded_max[j]

C31_Witness ==
    \E r \in Runs :
        /\ Len(run[r].batches) = 2
        /\ Len(run[r].batches[1]) = 2
        /\ run[r].yielded_max[1] < run[r].yielded_max[2]

\* C32: when the client fails with an error other than a failed conditional
\* check, get_watermark, update_watermark and get_state each raise
\* WatermarkError after exactly one client call.
C32_StoreFailureIsWatermarkError ==
    \A r \in Runs : \A k \in DOMAIN run[r].store_call :
        LET c == run[r].store_call[k]
        IN c.exc # "" => c.raised = "WatermarkError" /\ c.client_calls = 1

C33_StreamNeverOnStaleConnection ==
    \A r \in Runs : \A k \in DOMAIN run[r].conn.opened_on :
        /\ run[r].conn.opened_on[k].connection = "alive"
        /\ run[r].conn.opened_on[k].checked

\* what an invocation leaves behind, without the names that tell invocations
\* apart (table name, execution id)
Outcome(r) ==
    [processed |-> run[r].processed,
     batches |-> run[r].batches,
     write_calls |-> run[r].write_calls,
     files |-> {<<f.key[2], f.rows>> : f \in FilesOf(r)},
     commits |-> [k \in DOMAIN run[r].wm_calls |->
                    <<run[r].wm_calls[k].ok, run[r].wm_calls[k].new_watermark,
                      run[r].wm_calls[k].previous_watermark,
                      run[r].wm_calls[k].rows_exported>>],
     stored |-> {<<it.watermark, it.rows_exported, it.execution_id = r>> :
                    it \in store[run[r].table_name]},
     result |-> [k \in DOMAIN run[r].result |->
                   <<run[r].result[k].rows_exported, run[r].result[k].files_written,
                     run[r].result[k].new_watermark,
                     run[r].result[k].timeout_reached, run[r].result[k].dry_run>>]]

\* C34: two invocations that differ only in the positive number
\* get_row_count returned process the same batches, write the same files and
\* commit the same watermark, whether the stream yields more or fewer rows
\* than were counted.
C34_CountOnlyTestedForZero ==
    (run[1].pc = "done" /\ run[2].pc = "done") => Outcome(1) = Outcome(2)

C34_Witness ==
    /\ run[1].pc = "done" /\ run[2].pc = "done"
    /\ run[1].row_count < Len(Concat(run[1].batches))
    /\ run[2].row_count > Len(Concat(run[2].batches))
    /\ Len(run[1].processed) = 2
    /\ \E c \in Commits(2) : c.rows_exported = Len(Concat(run[2].batches))

C36_FullLoadOverRecordNeverCommits ==
    [][\A r \in Runs :
         (/\ run[r].force_full_load /\ ~run[r].dry_run
          /\ store[run[r].table_name] # {}
          /\ run[r].pc = "commit" /\ run'[r].pc # "commit"
          /\ run[r].total_rows > 0)
         => /\ store' = store /\ files' = files
            /\ run'[r].pc = "error"
            /\ run'[r].error = "WatermarkError"
            /\ run'[r].raised_by = "update_watermark"
            /\ run'[r].result = <<>>
            /\ Len(run'[r].wm_calls) = 1
            /\ ~run'[r].wm_calls[1].ok
            /\ run'[r].wm_calls[1].previous_watermark = NoWm
            /\ Cardinality(FilesOf(r)) = Len(run[r].processed)
            /\ ~run[r].timeout_reached => RowsOf(r) = 1..Len(source)
      ]_vars

C36_Witness ==
    \E r \in Runs :
        /\ run[r].force_full_load /\ ~run[r].dry_run
        /\ run[r].pc = "error" /\ run[r].raised_by = "update_watermark"
        /\ run[r].wm_calls[1].conflict
        /\ ~run[r].timeout_reached
        /\ Cardinality(FilesOf(r)) = 2
        /\ \E it \in store[TableName] : it.execution_id = 0

\* C37: an invocation with a positive count whose first time check reports
\* exhaustion writes no file, does not call update_watermark, and returns a
\* result with rows_exported = 0, files_written = 0, timeout_reached = true
\* and new_watermark the starting watermark (null on a full load).
C37_TimeoutAtFirstCheck ==
    \A r \in Runs :
        (run[r].timeout_reached /\ run[r].checks = 1)
        => /\ run[r].row_count > 0
           /\ run[r].pc \in {"commit", "done"}
           /\ run[r].write_calls = 0 /\ FilesOf(r) = {}
           /\ run[r].wm_calls = <<>>
           /\ \A t \in Tables : \A it \in store[t] : it.execution_id # r
           /\ run[r].pc = "done"
              => LET start == run[r].streamed_from[1]
                 IN /\ Len(run[r].result) = 1
                    /\ run[r].result[1].rows_exported = 0
                    /\ run[r].result[1].files_written = 0
                    /\ run[r].result[1].timeout_reached
                    /\ run[r].result[1].new_watermark =
                          IF start = NoWm THEN <<>> ELSE Isoformat(start)
                    /\ start = IF run[r].force_full_load THEN NoWm ELSE run[r].got[1]

C37_Witness ==
    \E r \in Runs :
        /\ run[r].pc = "done" /\ run[r].timeout_reached /\ run[r].checks = 1
        /\ ~run[r].dry_run /\ ~run[r].force_full_load
        /\ run[r].row_count = 2
        /\ run[r].result[1].new_watermark = Isoformat(1)
        /\ GetWatermark(TableName) = 1

\* C39: in every result a writing invocation returns, files_written is the
\* number of batches the loop processed, each written by one write_batch call
\* in stream order, and rows_exported is the number of rows of those batches;
\* the rows_exported stored with the committed watermark is that of the
\* result.
C39_ResultCountsProcessedBatches ==
    \A r \in Runs :
        (run[r].pc = "done" /\ ~run[r].dry_run)
        => LET res == run[r].result[1]
               n == Len(run[r].processed)
           IN /\ res.files_written = n
              /\ run[r].write_calls = n
              /\ FilesOf(r) = {[key |-> GenerateKey(r, j), rows |-> run[r].batches[j]] :
                                  j \in 1..n}
              /\ res.rows_exported = Len(Concat(SubSeq(run[r].batches, 1, n)))
              /\ \A c \in Commits(r) : c.rows_exported = res.rows_exported
              /\ \A it \in store[run[r].table_name] :
                    it.execution_id = r => it.rows_exported = res.rows_exported
              /\ res.rows_exported > 0 => Commits(r) # {}

C39_Witness ==
    \E r \in Runs :
        /\ run[r].pc = "done" /\ ~run[r].dry_run
        /\ run[r].result[1].files_written = 2
        /\ run[r].result[1].rows_exported = 3
        /\ \E it \in store[TableName] : it.execution_id = r /\ it.rows_exported = 3

====
